---------------------------- MODULE Spec2Model ----------------------------
(***************************************************************************)
(* Model of bot.py: the per-user conversation context store                *)
(* (user_contexts guarded by context_lock), the transcript parser          *)
(* parse_context_to_messages, get_llm_response and the three update        *)
(* handlers start, clear_context_command and handle_message.               *)
(*                                                                         *)
(* A Python str is a sequence of one-character strings.  The Cyrillic      *)
(* words of the three fixed error replies cannot be written in a TLA+      *)
(* string; each of them is one symbol (its transliteration), which is      *)
(* sound for everything the code does with a str here: such a word holds   *)
(* no whitespace and no part of "role: ".                                  *)
(***************************************************************************)
EXTENDS Integers, Sequences, FiniteSets, TLC

\* ------------------------------------------------------------------ str

NL == "\n"
SP == " "

\* str.isspace for one character of the alphabet used here
IsSpace(c) == c \in {SP, NL}

RECURSIVE LStrip(_)
LStrip(s) ==
    IF s # <<>> /\ IsSpace(Head(s)) THEN LStrip(Tail(s)) ELSE s

RECURSIVE RStrip(_)
RStrip(s) ==
    IF s # <<>> /\ IsSpace(s[Len(s)]) THEN RStrip(SubSeq(s, 1, Len(s) - 1)) ELSE s

\* str.strip()
Strip(s) == RStrip(LStrip(s))

\* str.startswith(prefix)
StartsWith(s, prefix) ==
    /\ Len(s) >= Len(prefix)
    /\ SubSeq(s, 1, Len(prefix)) = prefix

\* str.find(sub): the least index at which sub occurs in s, 0 when it does not
RECURSIVE FindFrom(_, _, _)
FindFrom(s, sub, i) ==
    IF i + Len(sub) - 1 > Len(s) THEN 0
    ELSE IF SubSeq(s, i, i + Len(sub) - 1) = sub THEN i
    ELSE FindFrom(s, sub, i + 1)

Find(s, sub) == FindFrom(s, sub, 1)

\* str.split(sep): every piece between non-overlapping occurrences of sep,
\* scanned left to right, empty pieces kept
RECURSIVE Split(_, _)
Split(s, sep) ==
    LET i == Find(s, sep)
    IN  IF i = 0 THEN <<s>>
        ELSE <<SubSeq(s, 1, i - 1)>> \o Split(SubSeq(s, i + Len(sep), Len(s)), sep)

\* str.split(sep, 1): at most one split, at the first occurrence of sep
SplitOnce(s, sep) ==
    LET i == Find(s, sep)
    IN  IF i = 0 THEN <<s>>
        ELSE <<SubSeq(s, 1, i - 1), SubSeq(s, i + Len(sep), Len(s))>>

\* str.replace(old, ""): every non-overlapping occurrence of old removed,
\* scanned left to right
RECURSIVE Remove(_, _)
Remove(s, old) ==
    LET i == Find(s, old)
    IN  IF i = 0 THEN s
        ELSE SubSeq(s, 1, i - 1) \o Remove(SubSeq(s, i + Len(old), Len(s)), old)

\* ------------------------------------------------------------ literals

RolePrefix == <<"r", "o", "l", "e", ":", " ">>
BlockSeparator == <<NL, NL>>
RoleUser == <<"u", "s", "e", "r">>
RoleAssistant == <<"a", "s", "s", "i", "s", "t", "a", "n", "t">>
ValidRoles == {RoleUser, RoleAssistant}

\* a block ended by one newline instead of the blank line
FormatBlockOneNewline(role, content) ==
    RolePrefix \o role \o <<NL>> \o content \o <<NL>>

\* f"role: {role}\n{content}\n\n"
FormatBlock(role, content) ==
    RolePrefix \o role \o <<NL>> \o content \o BlockSeparator

\* -------------------------------------------------------------- parser

\* the body of the for loop: the records one block adds to messages
ParseBlock(block) ==
    IF Strip(block) = <<>> THEN <<>>
    ELSE LET lines == SplitOnce(Strip(block), <<NL>>)
         IN  IF Len(lines) >= 2
             THEN LET role_line == lines[1]
                      content == lines[2]
                  IN  IF StartsWith(role_line, RolePrefix)
                      THEN LET role == Strip(Remove(role_line, RolePrefix))
                           IN  IF role \in ValidRoles
                               THEN <<[role |-> role, content |-> content]>>
                               ELSE <<>>
                      ELSE <<>>
             ELSE <<>>

RECURSIVE ParseBlocks(_)
ParseBlocks(blocks) ==
    IF blocks = <<>> THEN <<>>
    ELSE ParseBlock(Head(blocks)) \o ParseBlocks(Tail(blocks))

parse_context_to_messages(context_string) ==
    IF Strip(context_string) = <<>> THEN <<>>
    ELSE ParseBlocks(Split(Strip(context_string), BlockSeparator))

\* --------------------------------------------------------------- store

\* Python's True, False and None, kept apart from every str
PyTrue == <<"True">>
PyFalse == <<"False">>
None == <<"None">>

\* user_id not in user_contexts -> user_contexts[user_id] = ""
EnsureEntry(tbl, u) ==
    IF u \in DOMAIN tbl THEN tbl ELSE (u :> <<>>) @@ tbl

\* user_contexts[user_id] += f"role: {role}\n{content}\n\n", on the value read
Appended(old, role, content) == old \o FormatBlock(role, content)

\* a clear that makes the entry it does not find
ClearedTableCreating(tbl, u) == (u :> <<>>) @@ tbl

\* a clear that empties every transcript
ClearedTableAll(tbl, u) == [v \in DOMAIN tbl |-> <<>>]

\* clear_user_context: the table it leaves
ClearedTable(tbl, u) ==
    IF u \in DOMAIN tbl THEN [tbl EXCEPT ![u] = <<>>] ELSE tbl

\* a clear that reports the transcript's truth value, not the key's presence
ClearResultNonEmpty(tbl, u) ==
    IF u \in DOMAIN tbl /\ tbl[u] # <<>> THEN PyTrue ELSE PyFalse

\* clear_user_context: the value it returns
ClearResult(tbl, u) == IF u \in DOMAIN tbl THEN PyTrue ELSE PyFalse

\* ----------------------------------------------------------- inference

MsgConnection ==
    <<"Ne", SP, "udalos", SP, "podklyuchitsya", SP, "k", SP, "L", "M", SP,
      "S", "t", "u", "d", "i", "o", ".", SP, "Ubedites", ",", SP, "chto", SP,
      "server", SP, "zapushchen", ".">>
MsgTimeout ==
    <<"Prevysheno", SP, "vremya", SP, "ozhidaniya", SP, "otveta", ".">>
MsgOther ==
    <<"Proizoshla", SP, "oshibka", SP, "pri", SP, "generatsii", SP, "otveta", ".">>

\* what the try block of get_llm_response can end in
OutcomeKinds ==
    {"ok", "connection_error", "connect_timeout", "read_timeout",
     "http_error", "bad_json", "missing_field"}

\* the classes of the exception an outcome raises (requests' ConnectTimeout is
\* both a ConnectionError and a Timeout)
Raised(kind) ==
    CASE kind = "ok" -> {}
      [] kind = "connection_error" -> {"ConnectionError", "Exception"}
      [] kind = "connect_timeout" -> {"ConnectionError", "Timeout", "Exception"}
      [] kind = "read_timeout" -> {"Timeout", "Exception"}
      [] OTHER -> {"Exception"}

\* no clause for requests.exceptions.Timeout
get_llm_response_no_timeout(kind, reply) ==
    IF Raised(kind) = {} THEN reply
    ELSE IF "ConnectionError" \in Raised(kind) THEN MsgConnection
    ELSE MsgOther

\* the except clauses, in their order
get_llm_response(kind, reply) ==
    IF Raised(kind) = {} THEN reply
    ELSE IF "ConnectionError" \in Raised(kind) THEN MsgConnection
    ELSE IF "Timeout" \in Raised(kind) THEN MsgTimeout
    ELSE MsgOther

\* ------------------------------------------------------------- bounds

\* updates the dispatcher delivers in a run of Spec
MaxUpdates == 2
\* store calls a run of StoreSpec makes
MaxCalls == 3
\* blocks of a transcript handed to the parser in ParseSpec
MaxBlocks == 2
\* pairs appended in RoundTripSpec
MaxPairs == 2

Procs == {"t1", "t2"}
Users == {7, 42}
Free == "free"

UserTexts == {<<"H", "e", "l", "l", "o">>}
ReplyTexts == {<<"H", "i", SP, "t", "h", "e", "r", "e">>}
ApiRoles == {RoleUser, RoleAssistant}
ApiContents == {<<"H", "i">>, <<>>}

\* --------------------------------------------------------------- state

VARIABLES
    user_contexts,   \* the table: user id -> transcript
    context_lock,    \* Free, or the task inside `with context_lock`
    pc,              \* where each task is in its handler
    step,            \* where each task is in the store call it is making
    user_id,         \* each task's user_id
    role,            \* add_to_context's role argument
    content,         \* add_to_context's content argument
    tmp,             \* the value += has read and not yet stored
    ret,             \* what the task's last get_context / clear_user_context returned
    user_message,    \* handle_message's user_message
    context_string,  \* handle_message's context_string
    outcome,         \* how handle_message's inference call ended
    llm_response,    \* handle_message's llm_response
    started,         \* history: tasks started so far
    log,             \* history: per user, the store calls in the order they took effect
    acquired,        \* history: per user, the appends since the last clear, in lock order
    disturbed,       \* history: a clear ran between some handler's two appends
    aborted,         \* history: a handler stopped between its two appends
    p_in,            \* ParseSpec: the blocks the input is made of
    p_out,           \* ParseSpec: what the parser returned
    p_done,          \* ParseSpec: the parser has been called
    rt_pairs,        \* RoundTripSpec: the pairs to append
    rt_next,         \* RoundTripSpec: the next pair to append
    rt_table,        \* RoundTripSpec: the table
    rt_out,          \* RoundTripSpec: what the parser returned
    rt_done          \* RoundTripSpec: the parser has been called

storeVars == <<user_contexts, context_lock, step, role, content, tmp, ret>>
taskVars == <<pc, user_id, user_message, context_string, outcome, llm_response>>
histVars == <<started, log, acquired, disturbed, aborted>>
parseVars == <<p_in, p_out, p_done>>
rtVars == <<rt_pairs, rt_next, rt_table, rt_out, rt_done>>
vars == <<storeVars, taskVars, histVars, parseVars, rtVars>>

AddPcs == {"api_add", "msg_add_user", "msg_add_assistant"}
GetPcs == {"api_get", "msg_get"}
ClearPcs == {"api_clear", "start_clear", "clear_clear"}
StorePcs == AddPcs \cup GetPcs \cup ClearPcs
ReplyPcs == {"start_reply", "clear_reply", "msg_reply"}
RestPcs == {"idle", "done", "failed"}
\* handle_message after its first append took effect and before its second did
BetweenPcs == {"msg_get", "msg_typing", "msg_llm", "msg_add_assistant"}

StoreInit ==
    /\ user_contexts = <<>>
    /\ context_lock = Free
    /\ pc = [p \in Procs |-> "idle"]
    /\ step = [p \in Procs |-> "call"]
    /\ user_id = [p \in Procs |-> 0]
    /\ role = [p \in Procs |-> None]
    /\ content = [p \in Procs |-> None]
    /\ tmp = [p \in Procs |-> None]
    /\ ret = [p \in Procs |-> None]
    /\ user_message = [p \in Procs |-> None]
    /\ context_string = [p \in Procs |-> None]
    /\ outcome = [p \in Procs |-> None]
    /\ llm_response = [p \in Procs |-> None]
    /\ started = 0
    /\ log = [u \in Users |-> <<>>]
    /\ acquired = [u \in Users |-> <<>>]
    /\ disturbed = [u \in Users |-> FALSE]
    /\ aborted = [u \in Users |-> FALSE]

ParseIdle == p_in = <<>> /\ p_out = <<>> /\ p_done = FALSE
RtIdle ==
    rt_pairs = <<>> /\ rt_next = 1 /\ rt_table = <<>> /\ rt_out = <<>> /\ rt_done = FALSE

Init == StoreInit /\ ParseIdle /\ RtIdle

\* ------------------------------------------------------- the lock, calls

\* a lock that excludes nobody
CanAcquireAlways(p) == TRUE

\* context_lock.acquire() returns
CanAcquire(p) == context_lock = Free

\* a lock taken and never given back
ReleasedKept(p) == p

\* context_lock after __exit__
Released(p) == Free

\* the handler's statement after the store call at pc
AfterCall(at) ==
    CASE at = "msg_add_user" -> "msg_get"
      [] at = "msg_get" -> "msg_typing"
      [] at = "msg_add_assistant" -> "msg_reply"
      [] at = "start_clear" -> "start_reply"
      [] at = "clear_clear" -> "clear_reply"
      [] OTHER -> "done"

\* with context_lock: (entering)
Acquire(p) ==
    /\ pc[p] \in StorePcs
    /\ step[p] = "call"
    /\ CanAcquire(p)
    /\ context_lock' = p
    /\ step' = [step EXCEPT ![p] = "locked"]
    /\ acquired' =
         IF pc[p] \in AddPcs
         THEN [acquired EXCEPT ![user_id[p]] = Append(@, <<role[p], content[p]>>)]
         ELSE IF pc[p] \in ClearPcs
         THEN [acquired EXCEPT ![user_id[p]] = <<>>]
         ELSE acquired
    /\ UNCHANGED <<user_contexts, role, content, tmp, ret, taskVars, started, log,
                   disturbed, aborted, parseVars, rtVars>>

\* get_context, add_to_context: if user_id not in user_contexts: ... = ""
Ensure(p) ==
    /\ pc[p] \in AddPcs \cup GetPcs
    /\ step[p] = "locked"
    /\ user_contexts' = EnsureEntry(user_contexts, user_id[p])
    /\ step' = [step EXCEPT ![p] = "ensured"]
    /\ UNCHANGED <<context_lock, role, content, tmp, ret, taskVars, histVars,
                   parseVars, rtVars>>

\* add_to_context: += reads user_contexts[user_id]
AddLoad(p) ==
    /\ pc[p] \in AddPcs
    /\ step[p] = "ensured"
    /\ tmp' = [tmp EXCEPT ![p] = user_contexts[user_id[p]]]
    /\ step' = [step EXCEPT ![p] = "loaded"]
    /\ UNCHANGED <<user_contexts, context_lock, role, content, ret, taskVars,
                   histVars, parseVars, rtVars>>

\* add_to_context: += stores the concatenation
AddStore(p) ==
    /\ pc[p] \in AddPcs
    /\ step[p] = "loaded"
    /\ user_contexts' =
         [user_contexts EXCEPT ![user_id[p]] = Appended(tmp[p], role[p], content[p])]
    /\ tmp' = [tmp EXCEPT ![p] = None]
    /\ step' = [step EXCEPT ![p] = "return"]
    /\ log' = [log EXCEPT ![user_id[p]] =
                 Append(@, [op |-> "add", role |-> role[p], content |-> content[p],
                            ret |-> None])]
    /\ UNCHANGED <<context_lock, role, content, ret, taskVars, started, acquired,
                   disturbed, aborted, parseVars, rtVars>>

\* get_context: return user_contexts[user_id]
GetReturn(p) ==
    /\ pc[p] \in GetPcs
    /\ step[p] = "ensured"
    /\ ret' = [ret EXCEPT ![p] = user_contexts[user_id[p]]]
    /\ step' = [step EXCEPT ![p] = "return"]
    /\ log' = [log EXCEPT ![user_id[p]] =
                 Append(@, [op |-> "get", role |-> None, content |-> None,
                            ret |-> user_contexts[user_id[p]]])]
    /\ UNCHANGED <<user_contexts, context_lock, role, content, tmp, taskVars,
                   started, acquired, disturbed, aborted, parseVars, rtVars>>

\* clear_user_context: the body of the with statement
ClearBody(p) ==
    /\ pc[p] \in ClearPcs
    /\ step[p] = "locked"
    /\ user_contexts' = ClearedTable(user_contexts, user_id[p])
    /\ ret' = [ret EXCEPT ![p] = ClearResult(user_contexts, user_id[p])]
    /\ step' = [step EXCEPT ![p] = "return"]
    /\ log' = [log EXCEPT ![user_id[p]] =
                 Append(@, [op |-> "clear", role |-> None, content |-> None,
                            ret |-> ClearResult(user_contexts, user_id[p])])]
    /\ disturbed' =
         [disturbed EXCEPT ![user_id[p]] =
            @ \/ \E q \in Procs : user_id[q] = user_id[p] /\ pc[q] \in BetweenPcs]
    /\ aborted' = [aborted EXCEPT ![user_id[p]] = FALSE]
    /\ UNCHANGED <<context_lock, role, content, tmp, taskVars, started, acquired,
                   parseVars, rtVars>>

\* leaving the with statement; the call returns to the handler
Release(p) ==
    /\ pc[p] \in StorePcs
    /\ step[p] = "return"
    /\ context_lock' = Released(p)
    /\ step' = [step EXCEPT ![p] = "call"]
    /\ pc' = [pc EXCEPT ![p] = AfterCall(pc[p])]
    /\ context_string' =
         [context_string EXCEPT ![p] = IF pc[p] = "msg_get" THEN ret[p] ELSE @]
    /\ role' = [role EXCEPT ![p] = None]
    /\ content' = [content EXCEPT ![p] = None]
    /\ UNCHANGED <<user_contexts, tmp, ret, user_id, user_message, outcome,
                   llm_response, histVars, parseVars, rtVars>>

\* ------------------------------------------------------------ handlers

\* the handler the application runs for an update
Handler(kind) ==
    CASE kind = "start" -> "start_clear"
      [] kind = "clear" -> "clear_clear"
      [] OTHER -> "msg_add_user"

\* the reply recorded as a user turn
ReplyRoleUser == RoleUser

\* the role handle_message records the reply under
ReplyRole == RoleAssistant

\* the application hands an update to its handler: start and
\* clear_context_command begin with clear_user_context(user_id),
\* handle_message with add_to_context(user_id, "user", user_message)
ReceiveUpdate(p) ==
    /\ pc[p] \in RestPcs
    /\ started < MaxUpdates
    /\ \E kind \in {"start", "clear", "text"}, u \in Users, text \in UserTexts :
         /\ pc' = [pc EXCEPT ![p] = Handler(kind)]
         /\ user_id' = [user_id EXCEPT ![p] = u]
         /\ user_message' = [user_message EXCEPT ![p] = IF kind = "text" THEN text ELSE None]
         /\ role' = [role EXCEPT ![p] = IF kind = "text" THEN RoleUser ELSE None]
         /\ content' = [content EXCEPT ![p] = IF kind = "text" THEN text ELSE None]
    /\ started' = started + 1
    /\ ret' = [ret EXCEPT ![p] = None]
    /\ UNCHANGED <<user_contexts, context_lock, step, tmp, context_string, outcome,
                   llm_response, log, acquired, disturbed, aborted, parseVars, rtVars>>

\* the handler is over: its locals are gone
Finish(p, how) ==
    /\ pc' = [pc EXCEPT ![p] = how]
    /\ user_message' = [user_message EXCEPT ![p] = None]
    /\ context_string' = [context_string EXCEPT ![p] = None]
    /\ outcome' = [outcome EXCEPT ![p] = None]
    /\ llm_response' = [llm_response EXCEPT ![p] = None]
    /\ user_id' = [user_id EXCEPT ![p] = 0]
    /\ ret' = [ret EXCEPT ![p] = None]

\* await update.message.chat.send_action(action="typing"): it returns, or the
\* request to the platform raises and the handler ends in error_handler
SendTyping(p) ==
    /\ pc[p] = "msg_typing"
    /\ \/ /\ pc' = [pc EXCEPT ![p] = "msg_llm"]
          /\ UNCHANGED <<user_id, ret, user_message, context_string, outcome,
                         llm_response, aborted>>
       \/ /\ Finish(p, "failed")
          /\ aborted' = [aborted EXCEPT ![user_id[p]] = TRUE]
    /\ UNCHANGED <<user_contexts, context_lock, step, role, content, tmp, started,
                   log, acquired, disturbed, parseVars, rtVars>>

\* llm_response = get_llm_response(context_string, user_id), then the call of
\* add_to_context(user_id, "assistant", llm_response) begins
CallLLM(p) ==
    /\ pc[p] = "msg_llm"
    /\ \E kind \in OutcomeKinds, reply \in ReplyTexts :
         /\ outcome' = [outcome EXCEPT ![p] = kind]
         /\ llm_response' = [llm_response EXCEPT ![p] = get_llm_response(kind, reply)]
         /\ content' = [content EXCEPT ![p] = get_llm_response(kind, reply)]
    /\ role' = [role EXCEPT ![p] = ReplyRole]
    /\ pc' = [pc EXCEPT ![p] = "msg_add_assistant"]
    /\ UNCHANGED <<user_contexts, context_lock, step, tmp, ret, user_id, user_message,
                   context_string, histVars, parseVars, rtVars>>

\* await update.message.reply_text(...): it returns, or raises into error_handler
Reply(p) ==
    /\ pc[p] \in ReplyPcs
    /\ \/ Finish(p, "done")
       \/ Finish(p, "failed")
    /\ UNCHANGED <<user_contexts, context_lock, step, role, content, tmp, histVars,
                   parseVars, rtVars>>

\* a caller of the store's three functions, with any arguments
ApiCall(p) ==
    /\ pc[p] \in RestPcs
    /\ started < MaxCalls
    /\ \E u \in Users :
         /\ user_id' = [user_id EXCEPT ![p] = u]
         /\ \/ /\ pc' = [pc EXCEPT ![p] = "api_get"]
               /\ UNCHANGED <<role, content>>
            \/ /\ pc' = [pc EXCEPT ![p] = "api_clear"]
               /\ UNCHANGED <<role, content>>
            \/ /\ pc' = [pc EXCEPT ![p] = "api_add"]
               /\ \E r \in ApiRoles, c \in ApiContents :
                    /\ role' = [role EXCEPT ![p] = r]
                    /\ content' = [content EXCEPT ![p] = c]
    /\ started' = started + 1
    /\ ret' = [ret EXCEPT ![p] = None]
    /\ UNCHANGED <<user_contexts, context_lock, step, tmp, user_message,
                   context_string, outcome, llm_response, log, acquired, disturbed,
                   aborted, parseVars, rtVars>>

StoreStep(p) ==
    \/ Acquire(p)
    \/ Ensure(p)
    \/ AddLoad(p)
    \/ AddStore(p)
    \/ GetReturn(p)
    \/ ClearBody(p)
    \/ Release(p)

\* the bot.  Handlers of different updates may interleave at every await and,
\* where the platform runs them in threads, at every statement; an application
\* that handles one update at a time shows a subset of these behaviours.
Next ==
    \E p \in Procs :
        \/ ReceiveUpdate(p)
        \/ StoreStep(p)
        \/ SendTyping(p)
        \/ CallLLM(p)
        \/ Reply(p)

Spec == Init /\ [][Next]_vars

\* the store alone, under concurrent callers
StoreNext ==
    \E p \in Procs :
        \/ ApiCall(p)
        \/ StoreStep(p)

StoreSpec == Init /\ [][StoreNext]_vars
\* ------------------------------------------------- the parser on its own

\* all sequences over S of length at most n
SeqsUpTo(S, n) == UNION {[1..k -> S] : k \in 0..n}

\* first lines of blocks: the two roles the bot writes, other tags, an empty
\* tag, a tag that repeats the prefix, a header without the prefix, a padded tag
Headers ==
    { RolePrefix \o RoleUser,
      RolePrefix \o RoleAssistant,
      RolePrefix \o <<"s", "y", "s", "t", "e", "m">>,
      RolePrefix \o <<"R", "O", "L", "E">>,
      RolePrefix,
      RolePrefix \o RolePrefix \o RoleUser,
      RoleUser,
      RolePrefix \o <<SP>> \o RoleUser \o <<SP>> }

\* what follows the first line: nothing, one line, two lines
Remainders == {<<>>, <<"x">>, <<"x", NL, "y">>}

RawBlocks == [header : Headers, content : Remainders]

\* a transcript text: each block's header line, its remainder, the separator
RECURSIVE Blob(_)
Blob(blocks) ==
    IF blocks = <<>> THEN <<>>
    ELSE Head(blocks).header \o <<NL>> \o Head(blocks).content \o BlockSeparator
         \o Blob(Tail(blocks))

ParseInit ==
    /\ StoreInit
    /\ RtIdle
    /\ p_in \in SeqsUpTo(RawBlocks, MaxBlocks)
    /\ p_out = <<>>
    /\ p_done = FALSE

\* messages = parse_context_to_messages(context_string)
ParseCall ==
    /\ ~p_done
    /\ p_out' = parse_context_to_messages(Blob(p_in))
    /\ p_done' = TRUE
    /\ UNCHANGED <<p_in, storeVars, taskVars, histVars, rtVars>>

ParseNext == ParseCall

ParseSpec == ParseInit /\ [][ParseNext]_vars

\* ------------------------------------------- append in order, then parse

\* add_to_context, run alone
add_to_context(tbl, u, r, c) ==
    [EnsureEntry(tbl, u) EXCEPT ![u] = Appended(EnsureEntry(tbl, u)[u], r, c)]

\* get_context, run alone: the value it returns
get_context(tbl, u) == EnsureEntry(tbl, u)[u]

\* contents that are not empty and hold no "\n\n"
RtContents ==
    { <<"H", "i">>, <<"a", SP, "b">>, <<"a", NL, "b">>, <<SP>>,
      <<"H", "i", NL>>, <<NL, "H", "i">>, <<SP, "H", "i">>, <<"H", "i", SP>> }

RtPairs == [role : ValidRoles, content : RtContents]

RtInit ==
    /\ StoreInit
    /\ ParseIdle
    /\ rt_pairs \in SeqsUpTo(RtPairs, MaxPairs)
    /\ rt_next = 1
    /\ rt_table = <<>>
    /\ rt_out = <<>>
    /\ rt_done = FALSE

RtAppend ==
    /\ rt_next <= Len(rt_pairs)
    /\ rt_table' = add_to_context(rt_table, 42, rt_pairs[rt_next].role,
                                  rt_pairs[rt_next].content)
    /\ rt_next' = rt_next + 1
    /\ UNCHANGED <<rt_pairs, rt_out, rt_done, storeVars, taskVars, histVars, parseVars>>

RtParse ==
    /\ rt_next > Len(rt_pairs)
    /\ ~rt_done
    /\ rt_out' = parse_context_to_messages(get_context(rt_table, 42))
    /\ rt_table' = EnsureEntry(rt_table, 42)
    /\ rt_done' = TRUE
    /\ UNCHANGED <<rt_pairs, rt_next, storeVars, taskVars, histVars, parseVars>>

RtNext == RtAppend \/ RtParse

RoundTripSpec == RtInit /\ [][RtNext]_vars

\* C1 (as claimed): appending pairs with a role of the two and a content that
\* is not empty and holds no "\n\n" (it may begin or end with whitespace or be
\* whitespace only), then parsing, gives back exactly those pairs in order.
C1_RoundTrip == rt_done => rt_out = rt_pairs

\* the round trip does hold for contents that neither begin nor end with
\* whitespace
C1_TrimmedContents ==
    (rt_done /\ \A i \in 1..Len(rt_pairs) :
        Strip(rt_pairs[i].content) = rt_pairs[i].content)
    => rt_out = rt_pairs

\* the text after the one leading prefix of a header, trimmed
TagOf(header) == Strip(SubSeq(header, Len(RolePrefix) + 1, Len(header)))

\* C9's rule for one block
ClaimEmits(b) ==
    /\ b.content # <<>>
    /\ StartsWith(b.header, RolePrefix)
    /\ TagOf(b.header) \in ValidRoles

RECURSIVE ClaimedOutput(_)
ClaimedOutput(blocks) ==
    IF blocks = <<>> THEN <<>>
    ELSE (IF ClaimEmits(Head(blocks))
          THEN <<[role |-> TagOf(Head(blocks).header), content |-> Head(blocks).content]>>
          ELSE <<>>)
         \o ClaimedOutput(Tail(blocks))

\* C9 (as claimed): the parser emits a record for a block exactly when the block
\* has a header and a remainder, the header begins with "role: " and what
\* follows that one prefix, trimmed, is "user" or "assistant"; the records keep
\* block order.
C9_Filtering == p_done => p_out = ClaimedOutput(p_in)

\* the parser's rule and C9's differ only where the header repeats "role: "
C9_ExceptRepeatedPrefix ==
    (p_done /\ \A i \in 1..Len(p_in) :
        Find(SubSeq(p_in[i].header, 2, Len(p_in[i].header)), RolePrefix) = 0)
    => p_out = ClaimedOutput(p_in)

\* ------------------------------------------------ the store's properties

\* a block as the transcript format defines it
SpecBlock(r, c) == <<"r", "o", "l", "e", ":", " ">> \o r \o <<"\n">> \o c \o <<"\n", "\n">>

\* the appends of a call history that no later clear has wiped
Written(l) ==
    LET clears == {i \in 1..Len(l) : l[i].op = "clear"}
        from == IF clears = {} THEN 1
                ELSE 1 + CHOOSE i \in clears : \A j \in clears : j <= i
    IN  SelectSeq(SubSeq(l, from, Len(l)), LAMBDA e : e.op = "add")

\* the concatenation of the blocks of a sequence of appends
RECURSIVE Serialize(_)
Serialize(adds) ==
    IF adds = <<>> THEN <<>>
    ELSE SpecBlock(Head(adds).role, Head(adds).content) \o Serialize(Tail(adds))

\* a task is inside a get_context or add_to_context call for u
Creating(u) ==
    \E p \in Procs :
        user_id[p] = u /\ pc[p] \in AddPcs \cup GetPcs /\ step[p] # "call"

\* C2: every user id in the table maps to the concatenation of the complete
\* blocks appended since its last clear, in the order of the appends, and every
\* value get_context has returned was such a concatenation.
C2_WellFormed ==
    /\ \A u \in DOMAIN user_contexts :
          user_contexts[u] = Serialize(Written(log[u]))
    /\ \A u \in Users : \A i \in 1..Len(log[u]) :
          log[u][i].op = "get" =>
              log[u][i].ret = Serialize(Written(SubSeq(log[u], 1, i - 1)))

C2_Witness ==
    \E u \in Users : \E i \in 1..Len(log[u]) :
        /\ log[u][i].op = "get"
        /\ Len(Written(SubSeq(log[u], 1, i - 1))) = 2
        /\ log[u][i].ret = user_contexts[u]

\* C3: clear_user_context returns True exactly when the user id already has an
\* entry (an earlier get or append made one; none is ever removed); after a
\* True the entry is the empty string and still there; after a False the table
\* has no entry for the id, a get that follows returns "" and a clear that
\* follows returns False again.
C3_ClearSemantics ==
    \A u \in Users :
        /\ \A i \in 1..Len(log[u]) :
              log[u][i].op = "clear" =>
                  /\ log[u][i].ret \in {PyTrue, PyFalse}
                  /\ log[u][i].ret = PyTrue
                        <=> \E j \in 1..(i - 1) : log[u][j].op \in {"get", "add"}
                  /\ (log[u][i].ret = PyFalse /\ i < Len(log[u])) =>
                        /\ log[u][i + 1].op = "get" => log[u][i + 1].ret = <<>>
                        /\ log[u][i + 1].op = "clear" => log[u][i + 1].ret = PyFalse
        /\ (\E j \in 1..Len(log[u]) : log[u][j].op \in {"get", "add"})
              => u \in DOMAIN user_contexts
        /\ (log[u] # <<>> /\ log[u][Len(log[u])].op = "clear") =>
              IF log[u][Len(log[u])].ret = PyTrue
              THEN u \in DOMAIN user_contexts /\ user_contexts[u] = <<>>
              ELSE Creating(u) \/ u \notin DOMAIN user_contexts

C3_Witness ==
    \E u \in Users :
        /\ Len(log[u]) = 3
        /\ log[u][1].op = "clear" /\ log[u][1].ret = PyFalse
        /\ log[u][2].op = "add"
        /\ log[u][3].op = "clear" /\ log[u][3].ret = PyTrue
        /\ user_contexts[u] = <<>>

\* C4 (as claimed): get_context(7) on a never used id returns "", parsing ""
\* gives the empty list, and clear_user_context(7) called then returns False.
C4_UntouchedScenario ==
    /\ parse_context_to_messages(<<>>) = <<>>
    /\ (Len(log[7]) >= 1 /\ log[7][1].op = "get") => log[7][1].ret = <<>>
    /\ (Len(log[7]) >= 2 /\ log[7][1].op = "get" /\ log[7][2].op = "clear")
          => log[7][2].ret = PyFalse

\* C4 (amended): get_context(7) on a never used id returns "" and parsing ""
\* gives the empty list; clear_user_context(7) called after that get returns
\* True, the get having made the entry; it returns False when it is the first
\* call made for the id.
C4_UntouchedAmended ==
    /\ parse_context_to_messages(<<>>) = <<>>
    /\ (Len(log[7]) >= 1 /\ log[7][1].op = "get") => log[7][1].ret = <<>>
    /\ (Len(log[7]) >= 2 /\ log[7][1].op = "get" /\ log[7][2].op = "clear")
          => log[7][2].ret = PyTrue
    /\ (Len(log[7]) >= 1 /\ log[7][1].op = "clear") => log[7][1].ret = PyFalse

C4_Witness ==
    /\ Len(log[7]) = 2
    /\ log[7][1].op = "get" /\ log[7][1].ret = <<>>
    /\ log[7][2].op = "clear" /\ log[7][2].ret = PyTrue

\* the transcript of u, "" when it has none
TextOf(u) == IF u \in DOMAIN user_contexts THEN user_contexts[u] ELSE <<>>

\* pairs <<role, content>> as appends
RECURSIVE SerializePairs(_)
SerializePairs(pairs) ==
    IF pairs = <<>> THEN <<>>
    ELSE SpecBlock(Head(pairs)[1], Head(pairs)[2]) \o SerializePairs(Tail(pairs))

\* C6: at most one task is inside a critical section, and it is the holder of
\* context_lock; every append shows once in the transcript, in the order in
\* which the appends took the lock (the holder's own append is the one that
\* may still be missing).
C6_Atomicity ==
    /\ Cardinality({p \in Procs : step[p] # "call"}) <= 1
    /\ \A p \in Procs : step[p] # "call" <=> context_lock = p
    /\ \A u \in Users :
          LET holderHere == context_lock # Free /\ user_id[context_lock] = u
              adding == /\ holderHere
                        /\ pc[context_lock] \in AddPcs
                        /\ step[context_lock] # "return"
              clearing == /\ holderHere
                          /\ pc[context_lock] \in ClearPcs
                          /\ step[context_lock] # "return"
          IN  IF clearing THEN acquired[u] = <<>>
              ELSE IF adding
              THEN TextOf(u) =
                     SerializePairs(SubSeq(acquired[u], 1, Len(acquired[u]) - 1))
              ELSE TextOf(u) = SerializePairs(acquired[u])

\* two appends for one user at once: one holds the lock, the other waits
C6_Witness ==
    \E p, q \in Procs :
        /\ p # q
        /\ user_id[p] = user_id[q]
        /\ pc[p] = "api_add" /\ step[p] = "loaded"
        /\ pc[q] = "api_add" /\ step[q] = "call"
        /\ TextOf(user_id[p]) # <<>>

\* ------------------------------------------------- the bot's properties

\* what the table holds for u: whether it has an entry, and its transcript
EntryOf(tbl, u) == IF u \in DOMAIN tbl THEN <<"entry", tbl[u]>> ELSE <<"no entry">>

\* C5: a step of a task working for user id A leaves the table state of every
\* other id B as it was (whether B has an entry, and B's transcript), and what
\* a get or a clear for A returns is read from A's own entry.
C5_Isolation ==
    [][\A p \in Procs :
          (pc'[p] # pc[p] \/ step'[p] # step[p]) =>
              LET A == IF user_id[p] \in Users THEN user_id[p] ELSE user_id'[p]
              IN  /\ \A B \in Users \ {A} :
                        EntryOf(user_contexts', B) = EntryOf(user_contexts, B)
                  /\ (pc[p] \in GetPcs /\ step[p] = "ensured") =>
                        ret'[p] = user_contexts[A]
                  /\ (pc[p] \in ClearPcs /\ step[p] = "locked") =>
                        ret'[p] = IF A \in DOMAIN user_contexts THEN PyTrue ELSE PyFalse
      ]_vars

\* a clear command for one id has returned while the other id has a transcript
C5_Witness ==
    \E p \in Procs : \E B \in Users :
        /\ pc[p] = "clear_reply"
        /\ user_id[p] # B
        /\ ret[p] = PyFalse
        /\ B \in DOMAIN user_contexts
        /\ user_contexts[B] # <<>>

\* C7: a handle_message inside the inference call (or awaiting the typing
\* action before it) does not hold context_lock, so whoever holds it is inside
\* a store call; the inference call comes after the handler's get_context has
\* returned and before its add_to_context(user_id, "assistant", ...) begins.
C7_NoLockAcrossInference ==
    /\ \A p \in Procs :
          /\ pc[p] \in {"msg_typing", "msg_llm"} =>
                context_lock # p /\ step[p] = "call"
          /\ pc[p] = "msg_llm" =>
                /\ context_string[p] # None
                /\ role[p] = None /\ content[p] = None
                /\ llm_response[p] = None
    /\ context_lock # Free => pc[context_lock] \in StorePcs

\* one handler is inside the inference call while another task holds the lock
C7_Witness ==
    \E p, q \in Procs :
        /\ pc[p] = "msg_llm"
        /\ context_lock = q
        /\ pc[q] \in AddPcs

\* the reply the claim names for each way the inference call can end
ClaimedReplies(kind) ==
    CASE kind = "ok" -> ReplyTexts
      [] kind \in {"connection_error", "connect_timeout"} -> {MsgConnection}
      [] kind = "read_timeout" -> {MsgTimeout}
      [] OTHER -> {MsgOther}

\* s ends with t
EndsWith(s, t) ==
    /\ Len(s) >= Len(t)
    /\ SubSeq(s, Len(s) - Len(t) + 1, Len(s)) = t

\* C8: however the inference call ends, get_llm_response returns a text and
\* handle_message goes on to its second append (nothing is raised); connection
\* failure, timeout and any other failure give three different fixed texts; the
\* text returned is what is appended, as one assistant block.
C8_FailuresBecomeTurns ==
    /\ [](/\ MsgConnection # MsgTimeout
          /\ MsgConnection # MsgOther
          /\ MsgTimeout # MsgOther
          /\ \A p \in Procs :
                pc[p] = "msg_add_assistant" =>
                    /\ outcome[p] \in OutcomeKinds
                    /\ llm_response[p] \in ClaimedReplies(outcome[p])
                    /\ role[p] = <<"a", "s", "s", "i", "s", "t", "a", "n", "t">>
                    /\ content[p] = llm_response[p]
                    /\ step[p] = "return" =>
                          EndsWith(user_contexts[user_id[p]],
                                   SpecBlock(role[p], llm_response[p])))
    /\ [][\A p \in Procs :
             pc[p] = "msg_llm" => pc'[p] \in {"msg_llm", "msg_add_assistant"}]_vars

\* a timed out inference call has been recorded as the assistant's turn
C8_Witness ==
    \E p \in Procs :
        /\ pc[p] = "msg_add_assistant"
        /\ step[p] = "return"
        /\ outcome[p] = "read_timeout"
        /\ EndsWith(user_contexts[user_id[p]], SpecBlock(RoleAssistant, MsgTimeout))

\* how many appends of a role a transcript holds
CountRole(u, r) == Len(SelectSeq(Written(log[u]), LAMBDA e : e.role = r))

\* s holds t as a substring
Contains(s, t) == Find(s, t) # 0

\* the two parts of the pairing that hold while handlers run
PairingWhileRunning(u) ==
    /\ CountRole(u, RoleAssistant) <= CountRole(u, RoleUser)
    /\ \A p \in Procs :
          (pc[p] \in {"msg_typing", "msg_llm", "msg_add_assistant"} /\ user_id[p] = u)
              => Contains(context_string[p], SpecBlock(RoleUser, user_message[p]))

AllFinished == \A p \in Procs : pc[p] \in RestPcs

=============================================================================
